---- MODULE Spec2Model ----
(***************************************************************************)
(* Pnyx, a schema-driven loader of configuration from environment          *)
(* variables: parseValue, loadSchema and Pnyx, modelled as one             *)
(* synchronous call followed by the caller's attempts to mutate the        *)
(* returned object.                                                        *)
(*                                                                         *)
(* Strings are sequences of one-character strings, so that toLowerCase and *)
(* Number() are computed and not assumed.  A JavaScript value is a record  *)
(* [t, b, n, s]: t is its typeof, and b, n or s carries a boolean, a       *)
(* number (or, for an object, its heap address) or a string.  Objects live *)
(* in a heap (a sequence; an address is an index) and carry their frozen   *)
(* flag and their properties in insertion order.                           *)
(***************************************************************************)
EXTENDS Integers, Sequences, FiniteSets, TLC

VARIABLES
    schema,     \* the ConfigSchema: groups in enumeration order, each with its properties in order
    env,        \* process.env: variable name -> [set, s]
    constants,  \* options.constants: <<[key, value]>> in enumeration order
    heap,       \* the objects: <<[frozen, props]>>
    pc,         \* position in Pnyx / loadSchema
    ci,         \* index of the constants key the collision loop is at
    gi,         \* index of the group the walk is at
    pi,         \* index of the property the walk is at, 0 before the group object exists
    config,     \* loadSchema's local config: <<[key, value]>>
    errors,     \* loadSchema's errors
    warnings,   \* loadSchema's warnings
    loaded,     \* what loadSchema returned as config: "pending", "null" or "config"
    calls,      \* the callbacks invoked so far, in order
    outcome,    \* "running", "returned", "threw" or "halted"
    result,     \* heap address of the object Pnyx returned, 0 if none
    snapshot,   \* the heap at the time Pnyx returned
    attempts    \* mutations the caller attempted on the returned object

vars == <<schema, env, constants, heap, pc, ci, gi, pi, config, errors, warnings,
          loaded, calls, outcome, result, snapshot, attempts>>

----------------------------------------------------------------------------
\* Bounds of the model.

\* Most variables a schema of the walk has, over all its groups.
MaxVars == 3
\* Most mutations the caller attempts on a returned configuration.
MaxMutations == 2

----------------------------------------------------------------------------
\* JavaScript values.

\* An optional string field that is not given.
Undef == "undefined"

Undefined == [t |-> "undefined", b |-> FALSE, n |-> 0, s |-> <<>>]
BoolVal(b) == [t |-> "boolean", b |-> b, n |-> 0, s |-> <<>>]
NumVal(n) == [t |-> "number", b |-> FALSE, n |-> n, s |-> <<>>]
StrVal(s) == [t |-> "string", b |-> FALSE, n |-> 0, s |-> s]
ObjRef(a) == [t |-> "object", b |-> FALSE, n |-> a, s |-> <<>>]

\* typeof v
TypeOf(v) == v.t

\* An environment variable that is not set, and one set to s.
Unset == [set |-> FALSE, s |-> <<>>]
Raw(s) == [set |-> TRUE, s |-> s]

----------------------------------------------------------------------------
\* Strings.

UpperCase == <<"A","B","C","D","E","F","G","H","I","J","K","L","M",
               "N","O","P","Q","R","S","T","U","V","W","X","Y","Z">>
LowerCase == <<"a","b","c","d","e","f","g","h","i","j","k","l","m",
               "n","o","p","q","r","s","t","u","v","w","x","y","z">>
Digits == <<"0","1","2","3","4","5","6","7","8","9">>
WhiteSpace == {" ", "\t"}

\* String.prototype.toLowerCase
ToLowerCase(s) ==
    [i \in 1..Len(s) |->
        IF \E j \in 1..Len(UpperCase) : UpperCase[j] = s[i]
        THEN LowerCase[CHOOSE j \in 1..Len(UpperCase) : UpperCase[j] = s[i]]
        ELSE s[i]]

RECURSIVE TrimLeft(_)
TrimLeft(s) == IF s # <<>> /\ Head(s) \in WhiteSpace THEN TrimLeft(Tail(s)) ELSE s

RECURSIVE TrimRight(_)
TrimRight(s) ==
    IF s # <<>> /\ s[Len(s)] \in WhiteSpace THEN TrimRight(SubSeq(s, 1, Len(s) - 1)) ELSE s

IsDigit(c) == \E j \in 1..Len(Digits) : Digits[j] = c
DigitValue(c) == (CHOOSE j \in 1..Len(Digits) : Digits[j] = c) - 1

RECURSIVE DecimalValue(_)
DecimalValue(s) ==
    IF s = <<>> THEN 0
    ELSE DecimalValue(SubSeq(s, 1, Len(s) - 1)) * 10 + DigitValue(s[Len(s)])

\* Number(s) for the string forms the model's inputs use: white space is trimmed,
\* the empty string is 0, an optional sign, then "Infinity" or decimal digits;
\* anything else is NaN.  [nan, finite, n].
StringToNumber(s) ==
    LET t == TrimRight(TrimLeft(s))
        signed == t # <<>> /\ Head(t) \in {"+", "-"}
        body == IF signed THEN Tail(t) ELSE t
        neg == signed /\ Head(t) = "-"
    IN  IF t = <<>> THEN [nan |-> FALSE, finite |-> TRUE, n |-> 0]
        ELSE IF body = <<"I","n","f","i","n","i","t","y">>
             THEN [nan |-> FALSE, finite |-> FALSE, n |-> 0]
        ELSE IF body # <<>> /\ \A i \in 1..Len(body) : IsDigit(body[i])
             THEN [nan |-> FALSE, finite |-> TRUE,
                   n |-> IF neg THEN 0 - DecimalValue(body) ELSE DecimalValue(body)]
        ELSE [nan |-> TRUE, finite |-> FALSE, n |-> 0]

----------------------------------------------------------------------------
\* Errors and callback invocations.

\* new Error(...): what each message carries.
NoError == [kind |-> "none", varName |-> Undef, group |-> Undef, prop |-> Undef,
            received |-> <<>>, note |-> FALSE]
ParseError(envVarName, value) ==
    [kind |-> "ParseError", varName |-> envVarName, group |-> Undef, prop |-> Undef,
     received |-> value, note |-> FALSE]
DefaultTypeMismatch(groupName, propName) ==
    [kind |-> "DefaultTypeMismatch", varName |-> Undef, group |-> groupName,
     prop |-> propName, received |-> <<>>, note |-> FALSE]
MissingRequired(varName, groupName, propName, note) ==
    [kind |-> "MissingRequired", varName |-> varName, group |-> groupName,
     prop |-> propName, received |-> <<>>, note |-> note]

\* The two messages of the load pass, and the collision warning.
DefaultUsedMessage(varName, groupName, propName) ==
    [kind |-> "defaultUsed", varName |-> varName, group |-> groupName, prop |-> propName]
NotSetMessage(varName, groupName, propName) ==
    [kind |-> "notSet", varName |-> varName, group |-> groupName, prop |-> propName]
CollisionMessage(key) ==
    [kind |-> "collision", varName |-> Undef, group |-> key, prop |-> Undef]
NoMessage == [kind |-> "none", varName |-> Undef, group |-> Undef, prop |-> Undef]

\* One invocation of a callback.
Call(cb, message) == [cb |-> cb, message |-> message, errors |-> <<>>, returns |-> TRUE]
ErrorCall(errs, returns) ==
    [cb |-> "onError", message |-> NoMessage, errors |-> errs, returns |-> returns]

----------------------------------------------------------------------------
\* parseValue(value, type, envVarName): [threw, value, error]

parseValue(value, type, envVarName) ==
    LET valueLower == ToLowerCase(value)
        num == StringToNumber(value)
    IN  CASE type = "boolean" ->
                IF valueLower = <<"t","r","u","e">> \/ valueLower = <<"1">>
                THEN [threw |-> FALSE, value |-> BoolVal(TRUE), error |-> NoError]
                ELSE IF valueLower = <<"f","a","l","s","e">> \/ valueLower = <<"0">>
                THEN [threw |-> FALSE, value |-> BoolVal(FALSE), error |-> NoError]
                ELSE [threw |-> TRUE, value |-> Undefined,
                      error |-> ParseError(envVarName, value)]
          [] type = "number" ->
                IF num.nan \/ ~num.finite
                THEN [threw |-> TRUE, value |-> Undefined,
                      error |-> ParseError(envVarName, value)]
                ELSE [threw |-> FALSE, value |-> NumVal(num.n), error |-> NoError]
          [] OTHER -> [threw |-> FALSE, value |-> StrVal(value), error |-> NoError]

----------------------------------------------------------------------------
\* Objects: [frozen, props], props being <<[key, value]>> in insertion order.

NewObject == [frozen |-> FALSE, props |-> <<>>]

HasKey(props, key) == \E i \in 1..Len(props) : props[i].key = key

\* props[key], undefined when there is no such property
Get(props, key) ==
    IF HasKey(props, key)
    THEN props[CHOOSE i \in 1..Len(props) : props[i].key = key].value
    ELSE Undefined

\* props[key] = value on a plain property list: replaced in place, or added last
Assign(props, key, value) ==
    IF HasKey(props, key)
    THEN [i \in 1..Len(props) |->
            IF props[i].key = key THEN [key |-> key, value |-> value] ELSE props[i]]
    ELSE Append(props, [key |-> key, value |-> value])

Remove(props, key) == SelectSeq(props, LAMBDA p : p.key # key)

ObjectFreezeOmitted(obj) == obj

\* Object.freeze(obj)
ObjectFreeze(obj) == [obj EXCEPT !.frozen = TRUE]

\* obj[key] = value: a frozen object keeps its properties
Write(obj, key, value) ==
    IF obj.frozen THEN obj ELSE [obj EXCEPT !.props = Assign(@, key, value)]

\* delete obj[key]
Delete(obj, key) ==
    IF obj.frozen THEN obj ELSE [obj EXCEPT !.props = Remove(@, key)]

----------------------------------------------------------------------------
\* loadSchema: the resolution of one variable.

\* process.env[name]
Lookup(e, name) == IF name \in DOMAIN e THEN e[name] ELSE Unset

\* varName ?? propName
EffectiveVarName(def, propName) == IF def.varName # Undef THEN def.varName ELSE propName

\* type ?? "string"
EffectiveType(def) == IF def.type # Undef THEN def.type ELSE "string"

IsPresentWhenDefined(envValue) == envValue.set

\* envValue !== undefined && envValue !== ''
IsPresent(envValue) == envValue.set /\ envValue.s # <<>>

IsDefaultValueValidAlways(defaultValue, effectiveType) == TRUE

\* isDefaultValueValid after the check of the default's type
IsDefaultValueValid(defaultValue, effectiveType) ==
    ~(defaultValue # Undefined /\ TypeOf(defaultValue) # effectiveType)

\* What the resolution of one variable yields: the value stored, and the errors,
\* warnings and callback invocations it adds, in order.
Resolution(value, errs, warns, cbs) ==
    [value |-> value, errors |-> errs, warnings |-> warns, calls |-> cbs]

\* The branch taken when the environment variable is found and not empty.
ResolvePresent(def, propName, envValue) ==
    LET parsed == parseValue(envValue.s, EffectiveType(def), EffectiveVarName(def, propName))
    IN  IF parsed.threw
        THEN Resolution(Undefined, <<parsed.error>>, <<>>, <<>>)
        ELSE Resolution(parsed.value, <<>>, <<>>, <<>>)

\* The branch taken when the environment variable is not found.
ResolveAbsent(def, groupName, propName) ==
    LET defaultValue == def.default
        valid == IsDefaultValueValid(defaultValue, EffectiveType(def))
        schemaErrors ==
            IF valid THEN <<>> ELSE <<DefaultTypeMismatch(groupName, propName)>>
    IN  IF def.required = BoolVal(TRUE)
        THEN IF defaultValue # Undefined /\ valid
             THEN Resolution(defaultValue, schemaErrors,
                             <<DefaultUsedMessage(def.varName, groupName, propName)>>, <<>>)
             ELSE Resolution(Undefined,
                             Append(schemaErrors,
                                    MissingRequired(def.varName, groupName, propName, ~valid)),
                             <<>>, <<>>)
        ELSE IF defaultValue # Undefined /\ valid
             THEN Resolution(defaultValue, schemaErrors, <<>>,
                             <<Call("onWarn", DefaultUsedMessage(def.varName, groupName, propName))>>)
        ELSE IF defaultValue # Undefined /\ ~valid
             THEN Resolution(Undefined, schemaErrors, <<>>,
                             <<Call("onLog", NotSetMessage(def.varName, groupName, propName))>>)
        ELSE Resolution(Undefined, schemaErrors, <<>>,
                        <<Call("onLog", NotSetMessage(def.varName, groupName, propName))>>)

ResolveVariableDefaultAfterParseError(def, groupName, propName, envValue) ==
    LET present == ResolvePresent(def, propName, envValue)
        absent == ResolveAbsent(def, groupName, propName)
    IN  IF IsPresent(envValue) /\ present.errors = <<>> THEN present
        ELSE IF IsPresent(envValue)
        THEN Resolution(absent.value, present.errors \o absent.errors,
                        absent.warnings, absent.calls)
        ELSE absent

\* The body of the inner loop up to the assignment of finalValue.
ResolveVariable(def, groupName, propName, envValue) ==
    IF IsPresent(envValue)
    THEN ResolvePresent(def, propName, envValue)
    ELSE ResolveAbsent(def, groupName, propName)

----------------------------------------------------------------------------
\* Inputs.

GroupNames == <<"g1", "g2", "g3", "g4", "g5">>
PropNames == <<"k1", "k2", "k3", "k4", "k5">>
VarNames == <<"V1", "V2", "V3", "V4", "V5">>

\* Every VariableDefinition over these choices of its four optional fields.
Definitions ==
    [varName : {Undef, "V1"},
     type : {Undef, "boolean", "number", "string"},
     required : {Undefined, BoolVal(TRUE), BoolVal(FALSE)},
     default : {Undefined, BoolVal(TRUE), NumVal(5), StrVal(<<"x">>)}]

\* Values of an environment variable.
EnvValues ==
    {Unset, Raw(<<>>), Raw(<<"T","r","u","e">>), Raw(<<"0">>), Raw(<<"a","b","c">>),
     Raw(<<"4","2">>), Raw(<<"-","I","n","f","i","n","i","t","y">>), Raw(<<" ">>)}

\* Values of the other environment variable, the one the definition does not name.
DecoyValues == {Unset, Raw(<<"o","t","h","e","r">>)}

\* options.constants, with the objects it refers to: none; an object under the
\* name of the first group; a string under a name of no group and a number under
\* the name of the second group.
ConstantsSamples ==
    {[constants |-> <<>>, heap |-> <<>>],
     [constants |-> <<[key |-> "g1", value |-> ObjRef(1)]>>,
      heap |-> <<[frozen |-> FALSE,
                  props |-> <<[key |-> "host", value |-> StrVal(<<"d","b">>)]>>]>>],
     [constants |-> <<[key |-> "serviceName", value |-> StrVal(<<"s","v","c">>)],
                      [key |-> "g2", value |-> NumVal(1)]>>,
      heap |-> <<>>]}

\* A variable of the walk: its definition less the varName, and the value of its
\* environment variable.
WalkCase(type, required, default, envValue) ==
    [type |-> type, required |-> required, default |-> default, envValue |-> envValue]

\* One variable for each way a resolution with a message ends: a missing required
\* variable, a value that does not parse, a default of the wrong type, a default
\* used, and an optional variable left undefined.
WalkCases ==
    {WalkCase("number", BoolVal(TRUE), Undefined, Unset),
     WalkCase("number", Undefined, Undefined, Raw(<<"a","b","c">>)),
     WalkCase("number", Undefined, StrVal(<<"x">>), Raw(<<>>)),
     WalkCase(Undef, Undefined, StrVal(<<"x">>), Unset),
     WalkCase(Undef, BoolVal(FALSE), Undefined, Unset)}

\* The variables of the walk: each with its case, and whether it opens a new group.
WalkItems == [case : WalkCases, opens : BOOLEAN]

\* The group the i-th variable of the walk is in: the first variable opens the
\* first group.
GroupOf(items, i) == 1 + Cardinality({j \in 2..i : items[j].opens})

\* The variables of group g, in order.
MembersOf(items, g) ==
    SelectSeq([i \in 1..Len(items) |-> i], LAMBDA i : GroupOf(items, i) = g)

WalkSchema(items) ==
    [g \in 1..(IF Len(items) = 0 THEN 0 ELSE GroupOf(items, Len(items))) |->
        [name |-> GroupNames[g],
         props |-> [k \in 1..Len(MembersOf(items, g)) |->
            LET i == MembersOf(items, g)[k]
            IN  [name |-> PropNames[k],
                 def |-> [varName |-> VarNames[i], type |-> items[i].case.type,
                          required |-> items[i].case.required,
                          default |-> items[i].case.default]]]]]

WalkEnv(items) == [n \in {VarNames[i] : i \in 1..Len(items)} |->
                      items[CHOOSE i \in 1..Len(items) : VarNames[i] = n].case.envValue]

\* The state before the call, less the inputs.
InitCall ==
    /\ pc = "collide"
    /\ ci = 1
    /\ gi = 1
    /\ pi = 0
    /\ config = <<>>
    /\ errors = <<>>
    /\ warnings = <<>>
    /\ loaded = "pending"
    /\ calls = <<>>
    /\ outcome = "running"
    /\ result = 0
    /\ snapshot = <<>>
    /\ attempts = 0

\* A schema of one variable, under every definition and every environment value.
InitVariable ==
    /\ \E def \in Definitions, value \in EnvValues, decoy \in DecoyValues :
          /\ schema = <<[name |-> "g1", props |-> <<[name |-> "k1", def |-> def]>>]>>
          /\ env = IF def.varName = Undef
                   THEN [n \in {"k1", "V1"} |-> IF n = "k1" THEN value ELSE decoy]
                   ELSE [n \in {"k1", "V1"} |-> IF n = "V1" THEN value ELSE decoy]
    /\ \E k \in ConstantsSamples : constants = k.constants /\ heap = k.heap
    /\ InitCall

\* A schema of up to MaxVars variables in groups, each variable one of the cases.
InitWalk ==
    /\ \E n \in 0..MaxVars : \E items \in [1..n -> WalkItems] :
          /\ n > 0 => items[1].opens
          /\ schema = WalkSchema(items)
          /\ env = WalkEnv(items)
    /\ \E k \in ConstantsSamples : constants = k.constants /\ heap = k.heap
    /\ InitCall

Init == InitVariable \/ InitWalk

----------------------------------------------------------------------------
\* Pnyx: the collision check.

\* Object.prototype.hasOwnProperty.call(schema, key)
IsGroupName(key) == \E g \in 1..Len(schema) : schema[g].name = key

\* One round of the loop over the keys of constants.
CheckCollision ==
    /\ pc = "collide"
    /\ ci <= Len(constants)
    /\ calls' = IF IsGroupName(constants[ci].key)
                THEN Append(calls, Call("onWarn", CollisionMessage(constants[ci].key)))
                ELSE calls
    /\ ci' = ci + 1
    /\ UNCHANGED <<schema, env, constants, heap, pc, gi, pi, config, errors, warnings,
                   loaded, outcome, result, snapshot, attempts>>

\* The call of loadSchema, once the loop is over.
StartLoad ==
    /\ pc = "collide"
    /\ ci > Len(constants)
    /\ pc' = "load"
    /\ gi' = 1
    /\ pi' = 0
    /\ config' = <<>>
    /\ errors' = <<>>
    /\ warnings' = <<>>
    /\ UNCHANGED <<schema, env, constants, heap, ci, loaded, calls, outcome, result,
                   snapshot, attempts>>

----------------------------------------------------------------------------
\* loadSchema: the walk.

\* config[groupName] = {}
EnterGroup ==
    /\ pc = "load"
    /\ gi <= Len(schema)
    /\ pi = 0
    /\ heap' = Append(heap, NewObject)
    /\ config' = Assign(config, schema[gi].name, ObjRef(Len(heap) + 1))
    /\ pi' = 1
    /\ UNCHANGED <<schema, env, constants, pc, ci, gi, errors, warnings, loaded, calls,
                   outcome, result, snapshot, attempts>>

StoreValueWhenDefined(obj, propName, finalValue) ==
    IF finalValue = Undefined THEN obj ELSE Write(obj, propName, finalValue)

\* (config[groupName] as any)[propName] = finalValue
StoreValue(obj, propName, finalValue) == Write(obj, propName, finalValue)

\* One round of the inner loop. The code never leaves the walk: stop is FALSE.
LoadVariableStep(stop) ==
    /\ pc = "load"
    /\ gi <= Len(schema)
    /\ pi >= 1
    /\ pi <= Len(schema[gi].props)
    /\ LET groupName == schema[gi].name
           propName == schema[gi].props[pi].name
           definition == schema[gi].props[pi].def
           envValue == Lookup(env, EffectiveVarName(definition, propName))
           r == ResolveVariable(definition, groupName, propName, envValue)
           address == Get(config, groupName).n
       IN  /\ heap' = [heap EXCEPT ![address] = StoreValue(@, propName, r.value)]
           /\ errors' = errors \o r.errors
           /\ warnings' = warnings \o r.warnings
           /\ calls' = calls \o r.calls
           /\ IF stop /\ r.errors # <<>>
              THEN gi' = Len(schema) + 1 /\ pi' = 0
              ELSE gi' = gi /\ pi' = pi + 1
    /\ UNCHANGED <<schema, env, constants, pc, ci, config, loaded, outcome, result,
                   snapshot, attempts>>

LoadVariableShortCircuit == LoadVariableStep(TRUE)

LoadVariable == LoadVariableStep(FALSE)

\* Object.freeze(config[groupName]), and on to the next group.
FreezeGroup ==
    /\ pc = "load"
    /\ gi <= Len(schema)
    /\ pi > Len(schema[gi].props)
    /\ heap' = [heap EXCEPT ![Get(config, schema[gi].name).n] = ObjectFreeze(@)]
    /\ gi' = gi + 1
    /\ pi' = 0
    /\ UNCHANGED <<schema, env, constants, pc, ci, config, errors, warnings, loaded,
                   calls, outcome, result, snapshot, attempts>>

\* The return of loadSchema: config is null when there are errors.
LoadSchemaReturn ==
    /\ pc = "load"
    /\ gi > Len(schema)
    /\ loaded' = IF Len(errors) > 0 THEN "null" ELSE "config"
    /\ pc' = "pnyx"
    /\ UNCHANGED <<schema, env, constants, heap, ci, gi, pi, config, errors, warnings,
                   calls, outcome, result, snapshot, attempts>>

----------------------------------------------------------------------------
\* Pnyx: after the load.

OutcomeAfterOnErrorContinues(returns) == IF returns THEN "returned" ELSE "halted"

\* onError(errors) either ends the execution itself or returns, and then Pnyx throws.
OutcomeAfterOnError(returns) == IF returns THEN "threw" ELSE "halted"

\* if (errors.length > 0) { onError(errors); throw ... }
ReportErrors ==
    /\ pc = "pnyx"
    /\ Len(errors) > 0
    /\ \E returns \in BOOLEAN :
          /\ calls' = Append(calls, ErrorCall(errors, returns))
          /\ outcome' = OutcomeAfterOnError(returns)
    /\ pc' = "done"
    /\ UNCHANGED <<schema, env, constants, heap, ci, gi, pi, config, errors, warnings,
                   loaded, result, snapshot, attempts>>

RECURSIVE AssignAll(_, _)
\* Object spread of the properties `from` onto `props`, in order.
AssignAll(props, from) ==
    IF from = <<>> THEN props
    ELSE AssignAll(Assign(props, Head(from).key, Head(from).value), Tail(from))

MergeConfigOverConstants(loadedConfig, constantProps) ==
    AssignAll(AssignAll(<<>>, constantProps), loadedConfig)

\* {...config, ...constants}
MergeConstants(loadedConfig, constantProps) ==
    AssignAll(AssignAll(<<>>, loadedConfig), constantProps)

\* The merge, the freeze and the return.
Assemble ==
    /\ pc = "pnyx"
    /\ ~(Len(errors) > 0)
    /\ LET loadedConfig == IF loaded = "null" THEN <<>> ELSE config
           pnyxConfig == [frozen |-> FALSE, props |-> MergeConstants(loadedConfig, constants)]
       IN  /\ heap' = Append(heap, ObjectFreeze(pnyxConfig))
           /\ result' = Len(heap) + 1
    /\ snapshot' = heap'
    /\ outcome' = "returned"
    /\ pc' = "done"
    /\ UNCHANGED <<schema, env, constants, ci, gi, pi, config, errors, warnings, loaded,
                   calls, attempts>>

----------------------------------------------------------------------------
\* The caller, with the returned configuration in hand.

\* The returned object and the objects under its keys.
Reachable ==
    {result} \cup {heap[result].props[i].value.n :
                     i \in {j \in 1..Len(heap[result].props) :
                              TypeOf(heap[result].props[j].value) = "object"}}

\* The keys the caller writes to or deletes: those the object has, and a new one.
KeysToTry(address) ==
    {heap[address].props[i].key : i \in 1..Len(heap[address].props)} \cup {"added"}

\* An attempted write or addition: target[key] = "changed"
MutateWrite ==
    /\ pc = "done"
    /\ outcome = "returned"
    /\ attempts < MaxMutations
    /\ \E address \in Reachable : \E key \in KeysToTry(address) :
          heap' = [heap EXCEPT ![address] =
                      Write(@, key, StrVal(<<"c","h","a","n","g","e","d">>))]
    /\ attempts' = attempts + 1
    /\ UNCHANGED <<schema, env, constants, pc, ci, gi, pi, config, errors, warnings,
                   loaded, calls, outcome, result, snapshot>>

\* An attempted deletion: delete target[key]
MutateDelete ==
    /\ pc = "done"
    /\ outcome = "returned"
    /\ attempts < MaxMutations
    /\ \E address \in Reachable : \E key \in KeysToTry(address) :
          heap' = [heap EXCEPT ![address] = Delete(@, key)]
    /\ attempts' = attempts + 1
    /\ UNCHANGED <<schema, env, constants, pc, ci, gi, pi, config, errors, warnings,
                   loaded, calls, outcome, result, snapshot>>

Next ==
    \/ CheckCollision
    \/ StartLoad
    \/ EnterGroup
    \/ LoadVariable
    \/ FreezeGroup
    \/ LoadSchemaReturn
    \/ ReportErrors
    \/ Assemble
    \/ MutateWrite
    \/ MutateDelete

Spec == Init /\ [][Next]_vars

----------------------------------------------------------------------------
\* What the properties below speak of.

\* The variables of a schema in declaration order: groups in order, then
\* properties in order.
RECURSIVE VariablesFrom(_, _, _)
VariablesFrom(sch, g, p) ==
    IF g > Len(sch) THEN <<>>
    ELSE IF p > Len(sch[g].props) THEN VariablesFrom(sch, g + 1, 1)
    ELSE <<[g |-> g, p |-> p]>> \o VariablesFrom(sch, g, p + 1)

Variables == VariablesFrom(schema, 1, 1)
VariableSet == LET vs == Variables IN {vs[i] : i \in 1..Len(vs)}

DefAt(v) == schema[v.g].props[v.p].def
GroupNameAt(v) == schema[v.g].name
PropNameAt(v) == schema[v.g].props[v.p].name
TypeAt(v) == IF DefAt(v).type = Undef THEN "string" ELSE DefAt(v).type
EnvNameAt(v) == IF DefAt(v).varName = Undef THEN PropNameAt(v) ELSE DefAt(v).varName
EnvAt(v) == IF EnvNameAt(v) \in DOMAIN env THEN env[EnvNameAt(v)] ELSE Unset

\* The variable's environment value is absent or empty.
AbsentOrEmpty(v) == ~EnvAt(v).set \/ EnvAt(v).s = <<>>

\* The string does not coerce to the type.
NotCoercible(s, type) ==
    \/ /\ type = "boolean"
       /\ ToLowerCase(s) \notin {<<"t","r","u","e">>, <<"1">>, <<"f","a","l","s","e">>, <<"0">>}
    \/ /\ type = "number"
       /\ StringToNumber(s).nan \/ ~StringToNumber(s).finite

\* The variable has a default of the effective type.
HasValidDefault(v) == DefAt(v).default # Undefined /\ DefAt(v).default.t = TypeAt(v)

\* The walk is past the variable.
Processed(v) ==
    \/ pc \in {"pnyx", "done"}
    \/ pc = "load" /\ (v.g < gi \/ (v.g = gi /\ pi >= 1 /\ v.p < pi))

LoadIsOver == pc \in {"pnyx", "done"}

\* The object the walk built for the variable's group, and what it holds for it.
GroupObjectAt(v) == heap[Get(config, GroupNameAt(v)).n]
IsStored(v) ==
    HasKey(config, GroupNameAt(v)) /\ HasKey(GroupObjectAt(v).props, PropNameAt(v))
StoredAt(v) == Get(GroupObjectAt(v).props, PropNameAt(v))

\* The errors, the callback invocations and the collected warnings that are about
\* the variable, in order.
ErrorsOf(v) ==
    SelectSeq(errors, LAMBDA e :
        \/ e.group = GroupNameAt(v) /\ e.prop = PropNameAt(v)
        \/ e.kind = "ParseError" /\ e.varName = EnvNameAt(v))
CallsOf(v) ==
    SelectSeq(calls, LAMBDA c :
        c.message.group = GroupNameAt(v) /\ c.message.prop = PropNameAt(v))
WarningsOf(v) ==
    SelectSeq(warnings, LAMBDA w : w.group = GroupNameAt(v) /\ w.prop = PropNameAt(v))

\* The invocations of the load pass, and those of onError.
LoadCalls == SelectSeq(calls, LAMBDA c : c.message.kind \in {"defaultUsed", "notSet"})
ErrorCalls == SelectSeq(calls, LAMBDA c : c.cb = "onError")

RECURSIVE Flatten(_)
Flatten(ss) == IF ss = <<>> THEN <<>> ELSE Head(ss) \o Flatten(Tail(ss))

\* The resolution of each variable of the schema on its own under environment e,
\* in declaration order.
ResolutionsUnder(e) ==
    LET vs == Variables
    IN  [i \in 1..Len(vs) |->
        LET v == vs[i]
        IN  ResolveVariable(DefAt(v), GroupNameAt(v), PropNameAt(v),
                            IF EnvNameAt(v) \in DOMAIN e THEN e[EnvNameAt(v)] ELSE Unset)]

ErrorsUnder(e) ==
    LET rs == ResolutionsUnder(e) IN Flatten([i \in 1..Len(rs) |-> rs[i].errors])
CallsUnder(e) ==
    LET rs == ResolutionsUnder(e) IN Flatten([i \in 1..Len(rs) |-> rs[i].calls])
WarningsUnder(e) ==
    LET rs == ResolutionsUnder(e) IN Flatten([i \in 1..Len(rs) |-> rs[i].warnings])
ValuesUnder(e) ==
    LET rs == ResolutionsUnder(e) IN [i \in 1..Len(rs) |-> rs[i].value]

\* The values the walk stored, in declaration order.
StoredValues == LET vs == Variables IN [i \in 1..Len(vs) |-> StoredAt(vs[i])]

\* The keys of constants, and the returned object as it was when returned.
ConstantKeys == {constants[k].key : k \in 1..Len(constants)}
Returned == snapshot[result].props

----------------------------------------------------------------------------
\* C1: when the load pass collects at least one error Pnyx returns no
\* configuration object: onError is invoked exactly once, with the whole ordered
\* list of errors, and if it returns Pnyx throws; and onError is never invoked
\* while the list of errors is empty.
C1_ErrorsNeverYieldConfig ==
    /\ ErrorCalls # <<>> => errors # <<>>
    /\ outcome = "returned" => errors = <<>> /\ ErrorCalls = <<>>
    /\ errors # <<>> => result = 0
    /\ pc = "done" /\ errors # <<>> =>
          /\ Len(ErrorCalls) = 1
          /\ calls[Len(calls)].cb = "onError"
          /\ ErrorCalls[1].errors = errors
          /\ ErrorCalls[1].errors = ErrorsUnder(env)
          /\ outcome = IF ErrorCalls[1].returns THEN "threw" ELSE "halted"

\* C1: an onError that returned after a pass with several errors, and Pnyx threw.
C1_Witness ==
    /\ pc = "done"
    /\ Len(errors) >= 2
    /\ Len(ErrorCalls) = 1
    /\ ErrorCalls[1].returns
    /\ outcome = "threw"

\* C2: a variable whose definition gives neither required nor default, and whose
\* environment value is absent or empty, gets a MissingRequired error and is not
\* resolved to undefined with an informational log.
C2_NoDefaultBehavesAsRequired ==
    \A v \in VariableSet :
        /\ Processed(v)
        /\ DefAt(v).required = Undefined
        /\ DefAt(v).default = Undefined
        /\ AbsentOrEmpty(v)
        => /\ \E i \in 1..Len(ErrorsOf(v)) : ErrorsOf(v)[i].kind = "MissingRequired"
           /\ CallsOf(v) = <<>>

\* C3: a variable with required: true and a default of the effective type, whose
\* environment value is absent or empty, resolves to the default without an
\* error, and onWarn is invoked for it.
C3_RequiredDefaultWarnsThroughOnWarn ==
    \A v \in VariableSet :
        /\ Processed(v)
        /\ DefAt(v).required = BoolVal(TRUE)
        /\ HasValidDefault(v)
        /\ AbsentOrEmpty(v)
        => /\ StoredAt(v) = DefAt(v).default
           /\ ErrorsOf(v) = <<>>
           /\ \E i \in 1..Len(CallsOf(v)) : CallsOf(v)[i].cb = "onWarn"

\* C4: the load pass never stops early: once it is over every variable of every
\* group has been processed, the errors are the errors of each variable in
\* declaration order, and a schema of k variables that each fail in one way
\* yields k errors and no configuration.
C4_WholePassAllErrorsInOrder ==
    LoadIsOver =>
        /\ \A v \in VariableSet : IsStored(v) /\ GroupObjectAt(v).frozen
        /\ errors = ErrorsUnder(env)
        /\ errors # <<>> => loaded = "null"
        /\ LET rs == ResolutionsUnder(env)
           IN  (Len(rs) > 0 /\ \A i \in 1..Len(rs) : Len(rs[i].errors) = 1)
               => Len(errors) = Len(rs) /\ loaded = "null"

\* C4: three variables in two groups, failing in three different ways, gave three
\* errors in declaration order.
C4_Witness ==
    /\ LoadIsOver
    /\ Len(schema) = 2
    /\ Len(Variables) = 3
    /\ Len(errors) = 3
    /\ errors[1].kind = "MissingRequired"
    /\ errors[2].kind = "ParseError"
    /\ errors[3].kind = "DefaultTypeMismatch"
    /\ loaded = "null"

\* C5: for a key of constants that names a schema group onWarn is invoked once
\* about the collision, before every invocation of the load pass; for a key that
\* names no group it is not invoked; and the returned object holds the constant's
\* value under the key.
C5_ConstantsOverrideAfterWarning ==
    /\ pc # "collide" =>
          \A k \in 1..Len(constants) :
              Len(SelectSeq(calls, LAMBDA c :
                      c.message.kind = "collision" /\ c.message.group = constants[k].key))
              = IF \E g \in 1..Len(schema) : schema[g].name = constants[k].key
                THEN 1 ELSE 0
    /\ \A i, j \in 1..Len(calls) :
          /\ calls[i].message.kind = "collision"
          /\ calls[j].message.kind \in {"defaultUsed", "notSet"}
          => i < j /\ calls[i].cb = "onWarn"
    /\ outcome = "returned" =>
          \A k \in 1..Len(constants) :
              /\ HasKey(Returned, constants[k].key)
              /\ Get(Returned, constants[k].key) = constants[k].value

\* C5: a configuration was returned whose first group a constant replaced, after
\* the collision warning and then a message of the load pass.
C5_Witness ==
    /\ outcome = "returned"
    /\ Len(schema) >= 1
    /\ schema[1].name \in ConstantKeys
    /\ Get(Returned, schema[1].name) # Get(config, schema[1].name)
    /\ Len(calls) >= 2
    /\ calls[1].message.kind = "collision"
    /\ calls[2].message.kind \in {"defaultUsed", "notSet"}

\* C6, as stated: after any attempted mutations of the returned object or of the
\* object under the name of any schema group, a constant that replaced the group
\* included, every stored value is as it was at return time.
C6_ImmutableIncludingReplacedGroups ==
    outcome = "returned" =>
        /\ heap[result] = snapshot[result]
        /\ \A g \in 1..Len(schema) :
              Get(Returned, schema[g].name).t = "object" =>
                  heap[Get(Returned, schema[g].name).n]
                  = snapshot[Get(Returned, schema[g].name).n]

\* C6, amended: after any attempted mutations, the returned object and the group
\* objects the load pass built (those of the schema groups that no key of
\* constants names) are as they were at return time.
C6_ImmutableTopLevelAndLoadedGroups ==
    outcome = "returned" =>
        /\ heap[result].frozen
        /\ heap[result] = snapshot[result]
        /\ \A g \in 1..Len(schema) :
              schema[g].name \notin ConstantKeys =>
                  /\ Get(Returned, schema[g].name).t = "object"
                  /\ heap[Get(Returned, schema[g].name).n].frozen
                  /\ heap[Get(Returned, schema[g].name).n]
                     = snapshot[Get(Returned, schema[g].name).n]

\* C6: every allowed mutation was attempted on a returned configuration that has
\* a group with a property which no constant replaced.
C6_Witness ==
    /\ outcome = "returned"
    /\ attempts = MaxMutations
    /\ \E g \in 1..Len(schema) :
          /\ schema[g].name \notin ConstantKeys
          /\ Len(schema[g].props) >= 1
    /\ constants # <<>>

\* C7: a run in which a variable's environment value is the empty string ends the
\* load pass with the values, errors, collected warnings and onWarn and onLog
\* invocations of the run in which that variable is unset.
C7_EmptyStringAsUnset ==
    LoadIsOver =>
        \A n \in DOMAIN env :
            env[n] = Raw(<<>>) =>
                LET unset == [env EXCEPT ![n] = Unset]
                IN  /\ StoredValues = ValuesUnder(unset)
                    /\ errors = ErrorsUnder(unset)
                    /\ warnings = WarningsUnder(unset)
                    /\ LoadCalls = CallsUnder(unset)

\* C7: a pass is over in which a variable with a default had the empty string for
\* its environment value, and holds the default.
C7_Witness ==
    /\ LoadIsOver
    /\ \E v \in VariableSet :
          /\ EnvAt(v) = Raw(<<>>)
          /\ HasValidDefault(v)
          /\ StoredAt(v) = DefAt(v).default

C9_DefaultTypeMismatch ==
    \A v \in VariableSet :
        /\ Processed(v)
        /\ AbsentOrEmpty(v)
        /\ DefAt(v).default # Undefined
        /\ DefAt(v).default.t # TypeAt(v)
        => /\ IsStored(v)
           /\ StoredAt(v) = Undefined
           /\ Len(ErrorsOf(v)) = IF DefAt(v).required = BoolVal(TRUE) THEN 2 ELSE 1
           /\ ErrorsOf(v)[1].kind = "DefaultTypeMismatch"
           /\ DefAt(v).required = BoolVal(TRUE) =>
                 /\ ErrorsOf(v)[2].kind = "MissingRequired"
                 /\ ErrorsOf(v)[2].note

\* C9: a required variable with a default of the wrong type has been processed.
C9_Witness ==
    \E v \in VariableSet :
        /\ Processed(v)
        /\ AbsentOrEmpty(v)
        /\ DefAt(v).default # Undefined
        /\ DefAt(v).default.t # TypeAt(v)
        /\ DefAt(v).required = BoolVal(TRUE)
        /\ Len(ErrorsOf(v)) = 2

\* C10: a variable whose environment value is present, not empty and not
\* coercible to the effective type gets the ParseError as its only error and no
\* value; its default is not used, and neither onWarn nor onLog is invoked for it.
C10_ParseErrorOnly ==
    \A v \in VariableSet :
        /\ Processed(v)
        /\ EnvAt(v).set
        /\ EnvAt(v).s # <<>>
        /\ NotCoercible(EnvAt(v).s, TypeAt(v))
        => /\ Len(ErrorsOf(v)) = 1
           /\ ErrorsOf(v)[1].kind = "ParseError"
           /\ ErrorsOf(v)[1].received = EnvAt(v).s
           /\ IsStored(v)
           /\ StoredAt(v) = Undefined
           /\ CallsOf(v) = <<>>
           /\ WarningsOf(v) = <<>>

\* C10: a required variable with a default of its type, whose environment value
\* does not parse, has been processed.
C10_Witness ==
    \E v \in VariableSet :
        /\ Processed(v)
        /\ EnvAt(v).set
        /\ EnvAt(v).s # <<>>
        /\ NotCoercible(EnvAt(v).s, TypeAt(v))
        /\ DefAt(v).required = BoolVal(TRUE)
        /\ HasValidDefault(v)
        /\ Len(ErrorsOf(v)) = 1

====
